---- MODULE Spec2Model ----
(***************************************************************************)
(* Model of script.js, the page controller of the invitation page: the     *)
(* scroll-triggered reveal animations (initAnimations, resetAnimations,    *)
(* the IntersectionObserver callback) and the DOMContentLoaded handler     *)
(* with the countdown, the guest-count stepper, the RSVP form and the      *)
(* music toggle.                                                           *)
(*                                                                         *)
(* The browser is the environment: it scrolls and lays out elements,       *)
(* changes the set of `.animate-item` elements, computes intersections,    *)
(* queues IntersectionObserverEntry records and runs callbacks one at a    *)
(* time (script.js never runs two handlers concurrently).                  *)
(***************************************************************************)
EXTENDS Integers, Sequences, FiniteSets

\* ---------------------------------------------------------------------
\* Bounds of the model
\* ---------------------------------------------------------------------

\* number of elements that may carry the `.animate-item` class
NElems == 2

\* number of IntersectionObservers created in one behaviour
\* (one per call of initAnimations)
MaxGen == 2

\* number of form submissions dispatched in one behaviour
MaxSubmits == 2

\* largest guest count the plus button is followed to
MaxGuests == 3

Elems == 1..NElems

Gens == 1..MaxGen

\* ---------------------------------------------------------------------
\* The DOM contract of the page
\* ---------------------------------------------------------------------

\* the identifiers looked up with document.getElementById
Ids ==
  {"days", "hours", "minutes", "seconds", "minus", "plus", "guestCount",
   "rsvpForm", "backgroundMusic", "musicToggle"}

\* window.innerHeight, in CSS pixels
innerHeight == 100

\* height of every reveal element's bounding box, in CSS pixels
ElemHeight == 20

\* the threshold option of the observer, in percent (threshold: 0.15)
ThresholdPct == 15

\* the scroll positions of the page (window.scrollY) the model follows
ScrollYs == {0, 2, 30, 130}

\* the distance of a reveal element's box from the top of the document: the
\* first element lies above the fold, each next one a viewport further down
Offset(e) == (e - 1) * innerHeight

VARIABLES
  present,            \* the ids the markup supplies
  ready,              \* the DOMContentLoaded handler has run
  raised,             \* an exception has escaped a handler of script.js
  listeners,          \* the callbacks the handler has registered
  now,                \* the wall clock, in ms relative to the wedding date
  daysText, hoursText, minutesText, secondsText,
  nameValue, attendanceValue, guestCountValue, messageValue,
  requests,           \* the POSTs dispatched so far, with their promise state
  musicPlaying, musicLabel, autoplay,
  animateItems,       \* document.querySelectorAll('.animate-item')
  visible,            \* the elements whose classList contains 'visible'
  scrollY,            \* how far the page is scrolled down
  animationObserver,  \* 0 is undefined, g > 0 the g-th observer created
  observed,           \* [[ObservationTargets]] of each observer
  queued              \* [[QueuedEntries]] of each observer: <<target, isIntersecting>>

pageVars == <<present, ready, raised, listeners>>

countdownVars == <<now, daysText, hoursText, minutesText, secondsText>>

formVars == <<nameValue, attendanceValue, guestCountValue, messageValue, requests>>

musicVars == <<musicPlaying, musicLabel, autoplay>>

revealVars ==
  <<animateItems, visible, scrollY, animationObserver, observed, queued>>

vars == <<pageVars, countdownVars, formVars, musicVars, revealVars>>

\* ---------------------------------------------------------------------
\* Strings: a string is a sequence of one-character strings
\* ---------------------------------------------------------------------

Digit(d) == <<"0", "1", "2", "3", "4", "5", "6", "7", "8", "9">>[d + 1]

\* Number.prototype.toString of an integer >= 0
RECURSIVE NumberToString(_)
NumberToString(n) == IF n < 10 THEN <<Digit(n)>> ELSE NumberToString(n \div 10) \o <<Digit(n % 10)>>

\* String.prototype.padStart(len, ch)
RECURSIVE PadStart(_, _, _)
PadStart(s, len, ch) == IF Len(s) >= len THEN s ELSE PadStart(<<ch>> \o s, len, ch)

\* white space as String.prototype.trim and parseInt skip it
IsSpace(c) == c = " "

\* String.prototype.trim
RECURSIVE Trim(_)
Trim(s) ==
  IF s = <<>> THEN s
  ELSE IF IsSpace(Head(s)) THEN Trim(Tail(s))
  ELSE IF IsSpace(s[Len(s)]) THEN Trim(SubSeq(s, 1, Len(s) - 1))
  ELSE s

IsDigit(c) == \E d \in 0..9 : Digit(d) = c

DigitValue(c) == CHOOSE d \in 0..9 : Digit(d) = c

\* the longest prefix of s made of decimal digits
RECURSIVE DigitPrefix(_)
DigitPrefix(s) ==
  IF s # <<>> /\ IsDigit(Head(s)) THEN <<Head(s)>> \o DigitPrefix(Tail(s)) ELSE <<>>

\* the number written by a sequence of decimal digits
RECURSIVE DigitsValue(_)
DigitsValue(ds) ==
  IF ds = <<>> THEN 0 ELSE DigitsValue(SubSeq(ds, 1, Len(ds) - 1)) * 10 + DigitValue(ds[Len(ds)])

\* the string without its leading white space
RECURSIVE TrimStart(_)
TrimStart(s) == IF s # <<>> /\ IsSpace(Head(s)) THEN TrimStart(Tail(s)) ELSE s

\* parseInt(s, 10): leading white space, an optional sign, then the digits
\* up to the first other character; NaN when there is no digit
ParseInt(s) ==
  LET t == TrimStart(s)
      signed == t # <<>> /\ Head(t) \in {"-", "+"}
      ds == DigitPrefix(IF signed THEN Tail(t) ELSE t)
  IN [nan |-> ds = <<>>,
      val |-> IF signed /\ Head(t) = "-" THEN 0 - DigitsValue(ds) ELSE DigitsValue(ds)]

\* parseInt(s, 10) || 0: NaN and 0 are falsy
ParseIntOrZero(s) == IF ParseInt(s).nan THEN 0 ELSE ParseInt(s).val

\* the string an integer becomes when it is assigned to input.value
NumberString(n) == IF n < 0 THEN <<"-">> \o NumberToString(0 - n) ELSE NumberToString(n)

\* ---------------------------------------------------------------------
\* Countdown
\* ---------------------------------------------------------------------

\* new Date('2026-01-24T19:00:00+05:00'); the model's clock counts
\* milliseconds from this instant
weddingDate == 0

\* a difference that is not set to zero after the date
DiffUnclamped(n) == weddingDate - n

\* weddingDate - now, set to zero once the date has passed
Diff(n) == IF weddingDate - n < 0 THEN 0 ELSE weddingDate - n

\* Math.floor(diff / q) for integers diff >= 0, q > 0; Math.floor((diff / q) % m)
\* is floor(diff / q) mod m, as the remainder of a non-negative double keeps
\* its integer part
Days(diff) == diff \div (1000 * 60 * 60 * 24)

\* the hours without the remainder by 24
HoursUnwrapped(diff) == diff \div (1000 * 60 * 60)

Hours(diff) == (diff \div (1000 * 60 * 60)) % 24

Minutes(diff) == (diff \div (1000 * 60)) % 60

Seconds(diff) == (diff \div 1000) % 60

\* the number of spans updateCountdown writes before `null.textContent = ...`
\* throws a TypeError: 4 when all four spans exist
SpansWritten(pres) ==
  IF "days" \notin pres THEN 0
  ELSE IF "hours" \notin pres THEN 1
  ELSE IF "minutes" \notin pres THEN 2
  ELSE IF "seconds" \notin pres THEN 3
  ELSE 4

\* updateCountdown(): the texts after the call, and whether it threw
UpdateCountdown(pres) ==
  LET diff == Diff(now)
      k == SpansWritten(pres)
  IN [days    |-> IF k >= 1 THEN NumberString(Days(diff)) ELSE daysText,
      hours   |-> IF k >= 2 THEN PadStart(NumberString(Hours(diff)), 2, "0") ELSE hoursText,
      minutes |-> IF k >= 3 THEN PadStart(NumberString(Minutes(diff)), 2, "0") ELSE minutesText,
      seconds |-> IF k >= 4 THEN PadStart(NumberString(Seconds(diff)), 2, "0") ELSE secondsText,
      threw   |-> k < 4]

\* the instants the model's clock takes, as milliseconds before the wedding:
\* 10 days 23:59:59.999, 1 day 01:01:01, the last and the first millisecond
\* of a day, an hour, a minute and a second, the wedding itself, and a
\* millisecond and a second after it
Times ==
  {0 - 950399999, 0 - 90061000, 0 - 86400000, 0 - 86399999, 0 - 3600000,
   0 - 3599999, 0 - 60000, 0 - 59999, 0 - 1000, 0 - 999, 0 - 500, 0 - 1,
   0, 1, 1000}

\* time passes
ClockAdvance ==
  /\ \E t \in Times : t > now /\ now' = t
  /\ UNCHANGED <<daysText, hoursText, minutesText, secondsText>>
  /\ UNCHANGED <<pageVars, formVars, musicVars>>
  /\ UNCHANGED <<animateItems, visible, scrollY, animationObserver, observed, queued>>

\* the callback of setInterval(updateCountdown, 1000)
Tick ==
  /\ "interval" \in listeners
  /\ LET r == UpdateCountdown(present)
     IN /\ daysText' = r.days
        /\ hoursText' = r.hours
        /\ minutesText' = r.minutes
        /\ secondsText' = r.seconds
        /\ raised' = (raised \/ r.threw)
  /\ UNCHANGED <<present, ready, listeners, now>>
  /\ UNCHANGED <<formVars, musicVars>>
  /\ UNCHANGED <<animateItems, visible, scrollY, animationObserver, observed, queued>>

\* ---------------------------------------------------------------------
\* Guest count
\* ---------------------------------------------------------------------

\* a minus handler that steps down whatever the value is
MinusValueUnclamped(s) == NumberString(ParseIntOrZero(s) - 1)

\* the field value the minus handler leaves: one less when the parsed value
\* is above 0, the field as it is otherwise
MinusValue(s) ==
  LET value == ParseIntOrZero(s)
  IN IF value > 0 THEN NumberString(value - 1) ELSE s

\* a plus handler that adds to the field's string without parsing it
PlusValueNoParse(s) == s \o NumberString(1)

\* the field value the plus handler leaves: the parsed value plus one
PlusValue(s) == NumberString(ParseIntOrZero(s) + 1)

\* the click handler of the minus button
MinusClick ==
  /\ "minus" \in listeners
  /\ guestCountValue' = MinusValue(guestCountValue)
  /\ UNCHANGED <<nameValue, attendanceValue, messageValue, requests>>
  /\ UNCHANGED <<pageVars, countdownVars, musicVars>>
  /\ UNCHANGED <<animateItems, visible, scrollY, animationObserver, observed, queued>>

\* the click handler of the plus button
PlusClick ==
  /\ "plus" \in listeners
  /\ ParseIntOrZero(guestCountValue) < MaxGuests
  /\ guestCountValue' = PlusValue(guestCountValue)
  /\ UNCHANGED <<nameValue, attendanceValue, messageValue, requests>>
  /\ UNCHANGED <<pageVars, countdownVars, musicVars>>
  /\ UNCHANGED <<animateItems, visible, scrollY, animationObserver, observed, queued>>

\* the markup's radio inputs named `attendance`: the value of each, and its
\* data-count attribute when it has one
AttendanceOptions ==
  {[value |-> <<"y">>, count |-> <<"5">>, hasCount |-> TRUE],
   [value |-> <<"n">>, count |-> <<"0">>, hasCount |-> TRUE],
   [value |-> <<"m">>, count |-> <<>>, hasCount |-> FALSE]}

\* a change handler that fills in the count only while the field holds 0
AttendanceChangeKeepsManual(radio) ==
  /\ attendanceValue # radio.value
  /\ attendanceValue' = radio.value
  /\ guestCountValue' =
       IF "attendance" \in listeners /\ radio.hasCount /\ ParseIntOrZero(guestCountValue) = 0
       THEN radio.count ELSE guestCountValue
  /\ UNCHANGED <<nameValue, messageValue, requests>>
  /\ UNCHANGED <<pageVars, countdownVars, musicVars>>
  /\ UNCHANGED <<animateItems, visible, scrollY, animationObserver, observed, queued>>

\* the user selects a radio input; its change handler copies data-count
\* into the guest-count field, which throws when the field does not exist
AttendanceChange(radio) ==
  /\ attendanceValue # radio.value
  /\ attendanceValue' = radio.value
  /\ IF "attendance" \in listeners /\ radio.hasCount
     THEN IF "guestCount" \in present
          THEN guestCountValue' = radio.count /\ UNCHANGED raised
          ELSE raised' = TRUE /\ UNCHANGED guestCountValue
     ELSE UNCHANGED <<guestCountValue, raised>>
  /\ UNCHANGED <<nameValue, messageValue, requests>>
  /\ UNCHANGED <<present, ready, listeners>>
  /\ UNCHANGED <<countdownVars, musicVars>>
  /\ UNCHANGED <<animateItems, visible, scrollY, animationObserver, observed, queued>>

\* ---------------------------------------------------------------------
\* Form submission
\* ---------------------------------------------------------------------

\* the texts the user types into the name and the message field
Texts == {<<>>, <<" ", "a", " ">>}

\* the user edits the name field
TypeName(t) ==
  /\ t # nameValue
  /\ nameValue' = t
  /\ UNCHANGED <<attendanceValue, guestCountValue, messageValue, requests>>
  /\ UNCHANGED <<pageVars, countdownVars, musicVars>>
  /\ UNCHANGED <<animateItems, visible, scrollY, animationObserver, observed, queued>>

\* the user edits the message field
TypeMessage(t) ==
  /\ t # messageValue
  /\ messageValue' = t
  /\ UNCHANGED <<nameValue, attendanceValue, guestCountValue, requests>>
  /\ UNCHANGED <<pageVars, countdownVars, musicVars>>
  /\ UNCHANGED <<animateItems, visible, scrollY, animationObserver, observed, queued>>

\* alert('Рахмет! Жауабыңыз қабылданды.')
ConfirmationNotice == "confirmation"

\* alert('Кешіріңіз, жіберу мүмкін болмады. Кейінірек қайталап көріңіз.')
FailureNotice == "failure"

\* a submit handler that posts the name and the message as typed
SubmitUntrimmed ==
  /\ "submit" \in listeners
  /\ Len(requests) < MaxSubmits
  /\ requests' =
       Append(requests,
              [data |-> [name |-> nameValue,
                         attendance |-> attendanceValue,
                         guestCount |-> guestCountValue,
                         message |-> messageValue],
               state |-> "pending",
               notices |-> <<>>])
  /\ UNCHANGED <<nameValue, attendanceValue, guestCountValue, messageValue>>
  /\ UNCHANGED <<pageVars, countdownVars, musicVars>>
  /\ UNCHANGED <<animateItems, visible, scrollY, animationObserver, observed, queued>>

\* the submit handler: the payload is read from the fields and posted with
\* fetch, whose promise is pending when the handler returns
Submit ==
  /\ "submit" \in listeners
  /\ Len(requests) < MaxSubmits
  /\ requests' =
       Append(requests,
              [data |-> [name |-> Trim(nameValue),
                         attendance |-> attendanceValue,
                         guestCount |-> guestCountValue,
                         message |-> Trim(messageValue)],
               state |-> "pending",
               notices |-> <<>>])
  /\ UNCHANGED <<nameValue, attendanceValue, guestCountValue, messageValue>>
  /\ UNCHANGED <<pageVars, countdownVars, musicVars>>
  /\ UNCHANGED <<animateItems, visible, scrollY, animationObserver, observed, queued>>

\* the values form.reset() restores: the markup's defaults, an empty form
\* with no attendance chosen and a guest count of 0
FormDefaults ==
  [name |-> <<>>, attendance |-> <<>>, guestCount |-> <<"0">>, message |-> <<>>]

\* a request whose promise is settled: the payload has left the page, the
\* notices are the alerts its callbacks have shown
Settled(notices) == [state |-> "settled", notices |-> notices]

\* a .catch callback that also resets the form
CatchCallbackResets(i, reqs) ==
  [requests |-> [reqs EXCEPT ![i] = Settled(Append(reqs[i].notices, FailureNotice))],
   reset |-> TRUE]

\* the .catch callback: console.error and the failure notice; the form is
\* not touched
CatchCallback(i, reqs) ==
  [requests |-> [reqs EXCEPT ![i] = Settled(Append(reqs[i].notices, FailureNotice))],
   reset |-> FALSE]

\* the fetch of request i is fulfilled: the .then callback shows the
\* confirmation, resets the form and sets the guest count to 0; the
\* assignment throws when the guest-count field does not exist, and the
\* .catch callback then runs on the rejection of the .then promise
FetchFulfilled(i) ==
  /\ i \in DOMAIN requests
  /\ requests[i].state = "pending"
  /\ LET shown == [requests EXCEPT ![i].notices = Append(@, ConfirmationNotice)]
     IN /\ nameValue' = FormDefaults.name
        /\ attendanceValue' = FormDefaults.attendance
        /\ messageValue' = FormDefaults.message
        /\ IF "guestCount" \in present
           THEN /\ guestCountValue' = NumberString(0)
                /\ requests' = [shown EXCEPT ![i] = Settled(shown[i].notices)]
           ELSE /\ guestCountValue' = FormDefaults.guestCount
                /\ requests' = CatchCallback(i, shown).requests
  /\ UNCHANGED <<pageVars, countdownVars, musicVars>>
  /\ UNCHANGED <<animateItems, visible, scrollY, animationObserver, observed, queued>>

\* the fetch of request i is rejected (a transport-level failure): the
\* .then callback is skipped and the .catch callback runs
FetchRejected(i) ==
  /\ i \in DOMAIN requests
  /\ requests[i].state = "pending"
  /\ LET r == CatchCallback(i, requests)
     IN /\ requests' = r.requests
        /\ nameValue' = IF r.reset THEN FormDefaults.name ELSE nameValue
        /\ attendanceValue' = IF r.reset THEN FormDefaults.attendance ELSE attendanceValue
        /\ guestCountValue' = IF r.reset THEN FormDefaults.guestCount ELSE guestCountValue
        /\ messageValue' = IF r.reset THEN FormDefaults.message ELSE messageValue
  /\ UNCHANGED <<pageVars, countdownVars, musicVars>>
  /\ UNCHANGED <<animateItems, visible, scrollY, animationObserver, observed, queued>>

\* ---------------------------------------------------------------------
\* Music
\* ---------------------------------------------------------------------

\* a .then callback that sets the flag and leaves the button as it is
AutoplayResolvedFlagOnly ==
  /\ autoplay = "pending"
  /\ autoplay' = "settled"
  /\ musicPlaying' = TRUE
  /\ UNCHANGED musicLabel
  /\ UNCHANGED <<pageVars, countdownVars, formVars>>
  /\ UNCHANGED <<animateItems, visible, scrollY, animationObserver, observed, queued>>

\* the promise of the audio.play() of page-ready is fulfilled
AutoplayResolved ==
  /\ autoplay = "pending"
  /\ autoplay' = "settled"
  /\ musicPlaying' = TRUE
  /\ musicLabel' = IF "musicToggle" \in present THEN "Pause music" ELSE musicLabel
  /\ UNCHANGED <<pageVars, countdownVars, formVars>>
  /\ UNCHANGED <<animateItems, visible, scrollY, animationObserver, observed, queued>>

\* the promise is rejected (autoplay blocked): the empty .catch callback
AutoplayRejected ==
  /\ autoplay = "pending"
  /\ autoplay' = "settled"
  /\ UNCHANGED <<musicPlaying, musicLabel>>
  /\ UNCHANGED <<pageVars, countdownVars, formVars>>
  /\ UNCHANGED <<animateItems, visible, scrollY, animationObserver, observed, queued>>

\* the click handler of the music button
MusicClick ==
  /\ "music" \in listeners
  /\ musicPlaying' = ~musicPlaying
  /\ musicLabel' = IF musicPlaying THEN "Play music" ELSE "Pause music"
  /\ UNCHANGED autoplay
  /\ UNCHANGED <<pageVars, countdownVars, formVars>>
  /\ UNCHANGED <<animateItems, visible, scrollY, animationObserver, observed, queued>>

\* ---------------------------------------------------------------------
\* Reveal animations
\* ---------------------------------------------------------------------

\* item.getBoundingClientRect().top
Top(e) == Offset(e) - scrollY

\* the part of an element's box inside the viewport, in percent of its area
RatioPct(t) ==
  LET lo == IF t < 0 THEN 0 ELSE t
      hi == IF t + ElemHeight > innerHeight THEN innerHeight ELSE t + ElemHeight
  IN IF hi > lo THEN ((hi - lo) * 100) \div ElemHeight ELSE 0

\* isIntersecting of the entry the browser creates for an element at top t.
\* At or above the threshold it is true, with the boxes apart it is false.
\* For an overlap below the threshold, or boxes that only touch, the
\* IntersectionObserver specification says true and the browsers that derive
\* isIntersecting from the threshold say false.
IsIntersectingOutcomes(t) ==
  IF RatioPct(t) >= ThresholdPct THEN {TRUE}
  ELSE IF t + ElemHeight < 0 \/ t > innerHeight THEN {FALSE}
  ELSE BOOLEAN

\* the test taken on the bottom of the box in place of its top
AlreadyVisibleByBottom(e) == Top(e) + ElemHeight < innerHeight

\* the test of initAnimations: item.getBoundingClientRect().top < window.innerHeight
AlreadyVisible(e) == Top(e) < innerHeight

\* unobserve called without the try statement around it
TryUnobservePropagates(threw) == threw

\* try { animationObserver.unobserve(item) } catch (e) {}: whether an exception
\* thrown by unobserve leaves the try statement
TryUnobserve(threw) == FALSE

\* the items the forEach of initAnimations unobserves from the previous
\* observer: all of them, or, when an exception escapes, the ones before
\* the first item whose unobserve throws
Unobserved(items, throwing) ==
  IF \E e \in throwing : TryUnobserve(TRUE)
  THEN {e \in items : \A f \in throwing : e < f}
  ELSE items

\* initAnimations() called with `vis` the elements that are visible at the call.
\* `drop` and `thr` are the browser's: whether unobserve(target) discards the
\* entries already queued for the target (the specification keeps them in
\* [[QueuedEntries]], engines that store entries per observation drop them),
\* and whether unobserve of an unregistered target throws.
InitAnimations(vis, drop, thr) ==
  LET items == animateItems
      old == animationObserver
      new == animationObserver + 1
      throwing == IF old # 0 /\ thr THEN items \ observed[old] ELSE {}
      gone == IF old # 0 THEN Unobserved(items, throwing) ELSE {}
      escaped == \E e \in throwing : TryUnobserve(TRUE)
      observed1 == IF old # 0 THEN [observed EXCEPT ![old] = @ \ gone] ELSE observed
      queued1 ==
        IF old # 0 /\ drop
        THEN [queued EXCEPT ![old] = {en \in @ : en[1] \notin gone}]
        ELSE queued
      shown == {e \in items : AlreadyVisible(e)}
  IN IF escaped
     THEN /\ raised' = TRUE
          /\ observed' = observed1
          /\ queued' = queued1
          /\ visible' = vis
          /\ UNCHANGED animationObserver
     ELSE /\ animationObserver' = new
          /\ observed' = [observed1 EXCEPT ![new] = items \ shown]
          /\ queued' = queued1
          /\ visible' = vis \cup shown
          /\ UNCHANGED raised

\* a reset that removes the class and does not initialize again
ResetAnimationsWithoutInit ==
  /\ animationObserver < MaxGen
  /\ visible' = visible \ animateItems
  /\ UNCHANGED <<animationObserver, observed, queued, raised>>
  /\ UNCHANGED <<present, ready, listeners, animateItems, scrollY>>
  /\ UNCHANGED <<countdownVars, formVars, musicVars>>

\* resetAnimations(), called by the translation module
ResetAnimations ==
  /\ animationObserver < MaxGen
  /\ \E drop \in BOOLEAN, thr \in BOOLEAN :
       InitAnimations(visible \ animateItems, drop, thr)
  /\ UNCHANGED <<present, ready, listeners, animateItems, scrollY>>
  /\ UNCHANGED <<countdownVars, formVars, musicVars>>

\* a callback that also takes the class away on a non-intersecting entry
NotifyToggles(g) ==
  /\ g <= animationObserver
  /\ queued[g] # {}
  /\ LET hits == {en[1] : en \in {x \in queued[g] : x[2]}}
         misses == {en[1] : en \in {x \in queued[g] : ~x[2]}}
     IN /\ visible' = (visible \ misses) \cup hits
        /\ observed' = [observed EXCEPT ![g] = @ \ hits]
  /\ queued' = [queued EXCEPT ![g] = {}]
  /\ UNCHANGED <<animateItems, scrollY, animationObserver>>
  /\ UNCHANGED <<pageVars, countdownVars, formVars, musicVars>>

\* a callback that unobserves the intersecting target without revealing it
NotifyForgetsClass(g) ==
  /\ g <= animationObserver
  /\ queued[g] # {}
  /\ LET hits == {en[1] : en \in {x \in queued[g] : x[2]}}
     IN observed' = [observed EXCEPT ![g] = @ \ hits]
  /\ queued' = [queued EXCEPT ![g] = {}]
  /\ UNCHANGED <<animateItems, visible, scrollY, animationObserver>>
  /\ UNCHANGED <<pageVars, countdownVars, formVars, musicVars>>

\* the callback of observer g runs with the entries queued for it
Notify(g) ==
  /\ g <= animationObserver
  /\ queued[g] # {}
  /\ LET hits == {en[1] : en \in {x \in queued[g] : x[2]}}
     IN /\ visible' = visible \cup hits
        /\ observed' = [observed EXCEPT ![g] = @ \ hits]
  /\ queued' = [queued EXCEPT ![g] = {}]
  /\ UNCHANGED <<animateItems, scrollY, animationObserver>>
  /\ UNCHANGED <<pageVars, countdownVars, formVars, musicVars>>

\* the browser's "update intersection observations" step for one target
QueueEntry(g, e) ==
  /\ g <= animationObserver
  /\ e \in observed[g]
  /\ \E isIntersecting \in IsIntersectingOutcomes(Top(e)) :
       queued' = [queued EXCEPT ![g] = @ \cup {<<e, isIntersecting>>}]
  /\ UNCHANGED <<animateItems, visible, scrollY, animationObserver, observed>>
  /\ UNCHANGED <<pageVars, countdownVars, formVars, musicVars>>

\* the user scrolls the page to position y
Scroll(y) ==
  /\ y # scrollY
  /\ scrollY' = y
  /\ UNCHANGED <<animateItems, visible, animationObserver, observed, queued>>
  /\ UNCHANGED <<pageVars, countdownVars, formVars, musicVars>>

\* a content swap: an element gains or loses the `.animate-item` class
\* (or enters or leaves the document)
DomChange(e) ==
  /\ animateItems' = IF e \in animateItems THEN animateItems \ {e} ELSE animateItems \cup {e}
  /\ UNCHANGED <<visible, scrollY, animationObserver, observed, queued>>
  /\ UNCHANGED <<pageVars, countdownVars, formVars, musicVars>>

\* ---------------------------------------------------------------------
\* Page-ready
\* ---------------------------------------------------------------------

\* the callbacks the DOMContentLoaded handler registers once updateCountdown
\* has returned, given the elements the markup supplies
Registered(pres) ==
  {"interval", "attendance"}
    \cup (IF "minus" \in pres /\ "guestCount" \in pres THEN {"minus"} ELSE {})
    \cup (IF "plus" \in pres /\ "guestCount" \in pres THEN {"plus"} ELSE {})
    \cup (IF "rsvpForm" \in pres THEN {"submit"} ELSE {})
    \cup (IF "musicToggle" \in pres /\ "backgroundMusic" \in pres THEN {"music"} ELSE {})

\* the DOMContentLoaded handler, from its first statement to the call of
\* initAnimations; a TypeError of updateCountdown ends it at once
DOMContentLoaded ==
  /\ ~ready
  /\ animationObserver < MaxGen
  /\ ready' = TRUE
  /\ LET r == UpdateCountdown(present)
     IN /\ daysText' = r.days
        /\ hoursText' = r.hours
        /\ minutesText' = r.minutes
        /\ secondsText' = r.seconds
        /\ IF r.threw
           THEN /\ raised' = TRUE
                /\ UNCHANGED <<listeners, autoplay>>
                /\ UNCHANGED <<visible, animationObserver, observed, queued>>
           ELSE /\ listeners' = Registered(present)
                /\ autoplay' = IF "backgroundMusic" \in present THEN "pending" ELSE autoplay
                /\ \E drop \in BOOLEAN, thr \in BOOLEAN : InitAnimations(visible, drop, thr)
  /\ UNCHANGED <<present, now, animateItems, scrollY, musicPlaying, musicLabel>>
  /\ UNCHANGED formVars

\* ---------------------------------------------------------------------
\* Initial states and specifications
\* ---------------------------------------------------------------------

\* the page as the markup delivers it, before any handler has run
\* the document before page-ready, at whatever instant the clock shows
InitDocument ==
  /\ ready = FALSE
  /\ raised = FALSE
  /\ listeners = {}
  /\ daysText = <<>>
  /\ hoursText = <<>>
  /\ minutesText = <<>>
  /\ secondsText = <<>>
  /\ nameValue = FormDefaults.name
  /\ attendanceValue = FormDefaults.attendance
  /\ guestCountValue = FormDefaults.guestCount
  /\ messageValue = FormDefaults.message
  /\ requests = <<>>
  /\ musicPlaying = FALSE
  /\ musicLabel = "Play music"
  /\ autoplay = "none"
  /\ visible = {}
  /\ animationObserver = 0
  /\ observed = [g \in Gens |-> {}]
  /\ queued = [g \in Gens |-> {}]

InitPage ==
  /\ InitDocument
  /\ now = 0 - 90061000

\* the complete page, its reveal elements anywhere
Init ==
  /\ InitPage
  /\ present = Ids
  /\ animateItems = Elems
  /\ scrollY \in ScrollYs

Next ==
  \/ DOMContentLoaded
  \/ ResetAnimations
  \/ \E g \in Gens : Notify(g)
  \/ \E g \in Gens, e \in Elems : QueueEntry(g, e)
  \/ \E y \in ScrollYs : Scroll(y)
  \/ \E e \in Elems : DomChange(e)

Spec == Init /\ [][Next]_vars

\* the same page with a fixed set of reveal elements
NextFixed ==
  \/ DOMContentLoaded
  \/ ResetAnimations
  \/ \E g \in Gens : Notify(g)
  \/ \E g \in Gens, e \in Elems : QueueEntry(g, e)
  \/ \E y \in ScrollYs : Scroll(y)

SpecFixed == Init /\ [][NextFixed]_vars

\* the complete page, scrolled to its top
InitTop ==
  /\ InitPage
  /\ present = Ids
  /\ animateItems = Elems
  /\ scrollY = 0

\* the handlers of the page next to the reveal controller
NextPage ==
  \/ DOMContentLoaded
  \/ ResetAnimations
  \/ \E g \in Gens : Notify(g)
  \/ \E g \in Gens, e \in Elems : QueueEntry(g, e)
  \/ Tick
  \/ MinusClick
  \/ PlusClick
  \/ MusicClick
  \/ Submit

SpecPage == InitTop /\ [][NextPage]_vars

\* a page whose markup supplies any subset of the identifiers
InitMarkup ==
  /\ InitPage
  /\ present \in SUBSET Ids
  /\ animateItems = Elems
  /\ scrollY = 0

NextMarkup ==
  \/ DOMContentLoaded
  \/ Tick
  \/ MinusClick
  \/ PlusClick
  \/ MusicClick

SpecMarkup == InitMarkup /\ [][NextMarkup]_vars

\* the RSVP form of the complete page
NextForm ==
  \/ DOMContentLoaded
  \/ \E t \in Texts : TypeName(t)
  \/ \E t \in Texts : TypeMessage(t)
  \/ \E radio \in AttendanceOptions : AttendanceChange(radio)
  \/ Submit
  \/ \E i \in 1..MaxSubmits : FetchFulfilled(i)
  \/ \E i \in 1..MaxSubmits : FetchRejected(i)

SpecForm == InitTop /\ [][NextForm]_vars

\* the reveal controller with resetAnimations() called only after page-ready
NextAfterReady ==
  \/ DOMContentLoaded
  \/ ready /\ ResetAnimations
  \/ \E g \in Gens : Notify(g)
  \/ \E g \in Gens, e \in Elems : QueueEntry(g, e)
  \/ \E y \in ScrollYs : Scroll(y)

SpecAfterReady == Init /\ [][NextAfterReady]_vars

\* the form of the complete page with edits, stepper clicks and submissions
\* while requests are in flight
NextSubmit ==
  \/ DOMContentLoaded
  \/ \E t \in Texts : TypeName(t)
  \/ \E t \in Texts : TypeMessage(t)
  \/ MinusClick
  \/ PlusClick
  \/ Submit
  \/ \E i \in 1..MaxSubmits : FetchFulfilled(i)
  \/ \E i \in 1..MaxSubmits : FetchRejected(i)

SpecSubmit == InitTop /\ [][NextSubmit]_vars

\* the form of a page that lacks any of the looked-up elements; the form's
\* controls are reached by name through the form element
NextMarkupForm ==
  \/ DOMContentLoaded
  \/ \E t \in Texts : TypeName(t)
  \/ Submit
  \/ \E i \in 1..MaxSubmits : FetchFulfilled(i)
  \/ \E i \in 1..MaxSubmits : FetchRejected(i)

SpecMarkupForm == InitMarkup /\ [][NextMarkupForm]_vars

\* the countdown and the music of the complete page, loaded at any instant
InitTimers ==
  /\ InitDocument
  /\ now \in Times
  /\ present = Ids
  /\ animateItems = Elems
  /\ scrollY = 0

NextTimers ==
  \/ DOMContentLoaded
  \/ ClockAdvance
  \/ Tick
  \/ MusicClick
  \/ AutoplayResolved
  \/ AutoplayRejected

SpecTimers == InitTimers /\ [][NextTimers]_vars

\* the guest count of the complete page: stepper, presets and submissions
NextStepper ==
  \/ DOMContentLoaded
  \/ MinusClick
  \/ PlusClick
  \/ \E radio \in AttendanceOptions : AttendanceChange(radio)
  \/ Submit
  \/ \E i \in 1..MaxSubmits : FetchFulfilled(i)
  \/ \E i \in 1..MaxSubmits : FetchRejected(i)

SpecStepper == InitTop /\ [][NextStepper]_vars

\* ---------------------------------------------------------------------
\* Properties of the reveal controller
\* ---------------------------------------------------------------------

\* a step in which initAnimations runs to its end
InitializeStep == (DOMContentLoaded \/ ResetAnimations) /\ animationObserver' # animationObserver

\* the callback of observer g runs and gets an intersecting entry for e
RevealCallback(g, e) == Notify(g) /\ <<e, TRUE>> \in queued[g]

\* the element's box lies below the bottom edge or above the top edge
Outside(e) == Top(e) >= innerHeight \/ Top(e) + ElemHeight <= 0

\* a part of the element's box lies between the edges of the viewport
Within(e) == Top(e) < innerHeight /\ Top(e) + ElemHeight > 0

\* initAnimations, run in this step, marks e revealed
InitializeMarks(e) ==
  /\ InitializeStep
  /\ e \in visible'
  /\ ResetAnimations \/ e \notin visible

\* C1: with a fixed set of reveal elements, under any number of resets each
\* followed by intersection events, no element gets a reveal callback while
\* it is already revealed in the running generation (no duplicate reveal)
\* and no reveal element stays registered with an earlier generation's
\* observer.
C1_OnceEachGeneration ==
  [][/\ \A g \in Gens, e \in Elems : RevealCallback(g, e) => e \notin visible
     /\ \A g \in Gens, e \in animateItems' :
          g < animationObserver' => e \notin observed'[g]]_vars

\* C2: at most one observer holds registrations: once initAnimations has
\* returned every earlier observer has no observation target and no
\* element is a target of two observers, also when the set of
\* reveal elements changes between two calls.
C2_OneLiveSubscription ==
  /\ \A g \in Gens : g < animationObserver => observed[g] = {}
  /\ \A g \in Gens, h \in Gens : g # h => observed[g] \cap observed[h] = {}

\* C3: initAnimations does not mark an element revealed whose box is outside
\* the viewport (below the bottom edge or above the top edge) at the call;
\* an element becomes revealed only by initAnimations or by a callback
\* that reports it as intersecting.
C3_OutsideWaitsForCallback ==
  [][\A e \in Elems :
       /\ (e \in animateItems /\ Outside(e)) => ~InitializeMarks(e)
       /\ (e \notin visible /\ e \in visible') =>
            (InitializeMarks(e) \/ \E g \in Gens : RevealCallback(g, e))]_vars

\* C4: initAnimations marks every reveal element that is within the viewport
\* at the call revealed before it returns, and does not register it with the
\* new observer.
C4_WithinRevealedAtOnce ==
  [][InitializeStep =>
       \A e \in animateItems :
         Within(e) => e \in visible' /\ e \notin observed'[animationObserver']]_vars

\* after a reset one element was revealed at once and is no target of the
\* new observer, while the other one waits as its target
C4_Witness ==
  /\ animationObserver >= 2
  /\ \E e \in animateItems, f \in animateItems :
       /\ Within(e) /\ e \in visible /\ e \notin observed[animationObserver]
       /\ Outside(f) /\ f \notin visible /\ f \in observed[animationObserver]

\* C5: once a later initAnimations has returned, no callback of an earlier
\* observer changes the revealed state of any element, entries queued
\* before the reset included.
C5_OldGenerationSilent ==
  [][\A g \in Gens : (g < animationObserver /\ Notify(g)) => visible' = visible]_vars

\* C6: the revealed flag of an element is cleared only inside
\* resetAnimations: no callback entry, intersecting or not, no timer tick
\* and no click, change or submit handler takes `visible` away.
C6_RevealedMonotonic == [][visible \subseteq visible' \/ ResetAnimations]_vars

\* the page is ready, an element is revealed, a form submission is in flight
\* and the callback of the current observer has non-intersecting entries
\* to deliver
C6_Witness ==
  /\ ready
  /\ visible # {}
  /\ requests # <<>>
  /\ musicPlaying
  /\ animationObserver >= 2
  /\ \E e \in visible : <<e, FALSE>> \in queued[animationObserver]

\* e is an observation target of the current observer
Waiting(e) == animationObserver # 0 /\ e \in observed[animationObserver]

\* the browser queues an intersecting entry for e with the current observer
DeliverIntersecting(e) ==
  /\ animationObserver # 0
  /\ QueueEntry(animationObserver, e)
  /\ <<e, TRUE>> \in queued'[animationObserver]

\* a fixed set of reveal elements, where the browser keeps delivering an
\* intersecting entry for an element that stays registered and runs the
\* callback of an observer with queued entries
FairSpec ==
  /\ SpecFixed
  /\ \A g \in Gens : WF_vars(Notify(g))
  /\ \A e \in Elems : []<>(~Waiting(e)) \/ []<><<DeliverIntersecting(e)>>_vars

\* C7: once initAnimations has run, every reveal element is eventually
\* revealed, at once or by its first intersecting callback, provided the
\* browser delivers an intersecting entry for each registered element
\* and runs the callback.
C7_EventuallyRevealed ==
  \A e \in Elems : (animationObserver # 0 /\ e \in animateItems) ~> (e \in visible)

\* after the last reset nothing is queued or registered any more and an
\* element that lies below the viewport again has been revealed
C7_Witness ==
  /\ animationObserver = MaxGen
  /\ animateItems \subseteq visible
  /\ \A g \in Gens : observed[g] = {} /\ queued[g] = {}
  /\ \E e \in animateItems : ~AlreadyVisible(e)

\* C8: resetAnimations can be called in every state and any number of times
\* in succession; unobserve of an element that is no target of the previous
\* observer, throwing or not, lets no exception escape, and each call ends
\* with a fresh observer installed for the elements not yet in view.
C8_ResetNeverRaises ==
  /\ [](animationObserver < MaxGen => ENABLED ResetAnimations)
  /\ [][ResetAnimations =>
          /\ ~raised'
          /\ animationObserver' = animationObserver + 1
          /\ queued'[animationObserver'] = {}
          /\ observed'[animationObserver'] =
               {e \in animateItems : ~AlreadyVisible(e)}]_vars

\* resets in succession, the last one with an element that was no target
\* of the observer it replaced
C8_Witness ==
  /\ animationObserver = MaxGen
  /\ ~ready
  /\ ~raised
  /\ observed[animationObserver] # {}
  /\ animateItems \ observed[animationObserver] # {}

\* ---------------------------------------------------------------------
\* Properties of the page-ready handler and of the form
\* ---------------------------------------------------------------------

\* C9: whatever subset of the looked-up elements is missing, the page-ready
\* handler runs to its end without raising: each feature whose
\* elements exist has its handler attached and the reveal controller is
\* initialized.
C9_MissingElementsDegrade ==
  ready =>
    /\ ~raised
    /\ animationObserver # 0
    /\ {"days", "hours", "minutes", "seconds"} \subseteq present => "interval" \in listeners
    /\ {"minus", "guestCount"} \subseteq present => "minus" \in listeners
    /\ {"plus", "guestCount"} \subseteq present => "plus" \in listeners
    /\ "rsvpForm" \in present => "submit" \in listeners
    /\ {"musicToggle", "backgroundMusic"} \subseteq present => "music" \in listeners

\* the four field values of the form
Fields == <<nameValue, attendanceValue, guestCountValue, messageValue>>

\* C10: a submission that ends with a transport failure shows the failure
\* notice and leaves the four field values as they were just before; one that
\* ends with success shows the confirmation, clears the fields and leaves a
\* guest count of 0.
C10_CompletionAndFields ==
  [][\A i \in 1..MaxSubmits :
       /\ FetchRejected(i) =>
            /\ requests'[i].notices = <<FailureNotice>>
            /\ Fields' = Fields
       /\ FetchFulfilled(i) =>
            /\ requests'[i].notices = <<ConfirmationNotice>>
            /\ nameValue' = <<>>
            /\ attendanceValue' = <<>>
            /\ messageValue' = <<>>
            /\ guestCountValue' = <<"0">>]_vars

\* one submission has failed and another has succeeded, and a form that was
\* filled in after them still holds its values
C10_Witness ==
  /\ Len(requests) = 2
  /\ \E i \in 1..2, j \in 1..2 :
       /\ requests[i] = Settled(<<FailureNotice>>)
       /\ requests[j] = Settled(<<ConfirmationNotice>>)
  /\ nameValue # <<>>
  /\ guestCountValue # <<"0">>

\* ---------------------------------------------------------------------
\* Properties of the guest count
\* ---------------------------------------------------------------------

\* the guest count the field shows
GuestCount == ParseInt(guestCountValue).val

\* C11: starting from 0, after any sequence of minus clicks, plus clicks,
\* selections of presets with non-negative counts and completions of
\* submissions, the guest-count field holds the decimal string of an
\* integer >= 0.
C11_GuestCountNonNegative ==
  /\ ~ParseInt(guestCountValue).nan
  /\ GuestCount >= 0
  /\ guestCountValue = NumberString(GuestCount)

\* the preset of 5 was chosen and stepped down to 0, where a submission
\* sent it and ended
C11_Witness ==
  /\ guestCountValue = <<"0">>
  /\ attendanceValue = <<"y">>
  /\ \E i \in DOMAIN requests : requests[i].state = "settled"

\* C12: for the guest count n >= 0 the field holds, a minus click at n = 0
\* leaves 0, a plus click gives n + 1 whatever n is, and a plus click
\* followed by a minus click gives n again.
C12_StepperSteps ==
  /\ [](/\ GuestCount = 0 => MinusValue(guestCountValue) = guestCountValue
        /\ ParseInt(PlusValue(guestCountValue)) = [nan |-> FALSE, val |-> GuestCount + 1]
        /\ MinusValue(PlusValue(guestCountValue)) = guestCountValue)
  /\ [][/\ PlusClick => guestCountValue' = PlusValue(guestCountValue)
        /\ MinusClick => guestCountValue' = MinusValue(guestCountValue)]_vars

\* the plus button has taken the count from the preset of 0 up to the
\* highest count the model lets it reach
C12_Witness ==
  /\ ready
  /\ GuestCount = MaxGuests
  /\ attendanceValue = <<"n">>

\* C13: with the change handler attached, selecting a radio input that has a
\* data-count overwrites the guest-count field with exactly that count,
\* whatever the stepper left there; an input without data-count leaves the
\* field as it is.
C13_PresetOverwrites ==
  [][\A radio \in AttendanceOptions :
       (AttendanceChange(radio) /\ "attendance" \in listeners) =>
         guestCountValue' = IF radio.hasCount THEN radio.count ELSE guestCountValue]_vars

\* the preset of 5 has replaced a count the stepper had moved away from 0
\* and from 5: reached only through a selection made at another count
C13_Witness ==
  /\ "attendance" \in listeners
  /\ attendanceValue = <<"y">>
  /\ guestCountValue = <<"5">>
  /\ \E i \in DOMAIN requests :
       /\ requests[i].state = "pending"
       /\ requests[i].data.attendance = <<"m">>
       /\ requests[i].data.guestCount = <<"2">>

\* ---------------------------------------------------------------------
\* Properties of the countdown
\* ---------------------------------------------------------------------

\* max(0, weddingDate - now) at the instant n
Remaining(n) == IF weddingDate - n > 0 THEN weddingDate - n ELSE 0

\* the four spans show these texts
Shows(days, hours, minutes, seconds) ==
  /\ daysText = days
  /\ hoursText = hours
  /\ minutesText = minutes
  /\ secondsText = seconds

\* a text of exactly two decimal digits that reads as a number of 0..top
TwoDigits(text, top) ==
  /\ Len(text) = 2
  /\ \A i \in 1..2 : IsDigit(text[i])
  /\ DigitsValue(text) \in 0..top

\* C14: every rendering of the countdown, at page-ready and at each tick,
\* shows for d = max(0, target - now): days = floor(d / 86400000),
\* hours = floor(d / 3600000) mod 24, minutes = floor(d / 60000) mod 60,
\* seconds = floor(d / 1000) mod 60; hours, minutes and seconds are two
\* digits in 00..23, 00..59, 00..59; the four numbers add up to
\* floor(d / 1000) seconds; and d = 90061000 shows 1, 01, 01, 01.
C14_CountdownArithmetic ==
  [][(Tick \/ DOMContentLoaded) =>
       LET d == Remaining(now)
       IN /\ daysText' = NumberString(d \div 86400000)
          /\ TwoDigits(hoursText', 23)
          /\ TwoDigits(minutesText', 59)
          /\ TwoDigits(secondsText', 59)
          /\ DigitsValue(hoursText') = (d \div 3600000) % 24
          /\ DigitsValue(minutesText') = (d \div 60000) % 60
          /\ DigitsValue(secondsText') = (d \div 1000) % 60
          /\ DigitsValue(daysText') * 86400 + DigitsValue(hoursText') * 3600
               + DigitsValue(minutesText') * 60 + DigitsValue(secondsText')
             = d \div 1000
          /\ d = 90061000 =>
               Shows(<<"1">>, <<"0", "1">>, <<"0", "1">>, <<"0", "1">>)']_vars

\* 1 day 01:01:01 before the target the loaded page shows 1, 01, 01, 01
C14_Witness ==
  /\ "interval" \in listeners
  /\ now = 0 - 90061000
  /\ Shows(<<"1">>, <<"0", "1">>, <<"0", "1">>, <<"0", "1">>)

\* the rendering of a zero difference
Zeros == Shows(<<"0">>, <<"0", "0">>, <<"0", "0">>, <<"0", "0">>)

\* C15: at and after the target every rendering shows 0, 00, 00, 00; as the
\* clock does not go back the spans then stay at zero in every later step;
\* and the interval is never cleared, so a tick can always be taken.
C15_ZeroAfterTarget ==
  /\ [][((Tick \/ DOMContentLoaded) /\ now >= weddingDate) => Zeros']_vars
  /\ [][(now >= weddingDate /\ Zeros) => Zeros']_vars
  /\ [][("interval" \in listeners) => ("interval" \in listeners)']_vars
  /\ []("interval" \in listeners => ENABLED Tick)

\* a second after the target the page that was loaded before it shows zeros
C15_Witness ==
  /\ "interval" \in listeners
  /\ now = 1000
  /\ Zeros

\* ---------------------------------------------------------------------
\* Properties of the music
\* ---------------------------------------------------------------------

\* the button's label is the pause label when the flag says playing and
\* the play label when it says paused
Mirrored ==
  /\ musicLabel \in {"Play music", "Pause music"}
  /\ musicLabel = "Pause music" <=> musicPlaying

C17_RevealedNotRegistered ==
  /\ [][\A g \in Gens, e \in Elems :
         RevealCallback(g, e) => (e \in visible' /\ e \notin observed'[g])]_vars
  /\ [](ready => \A e \in Elems : ~(e \in visible /\ Waiting(e)))

\* C18: with a fixed set of reveal elements, in every state after
\* page-ready each reveal element is revealed or registered with the
\* current observer.
C18_RevealedOrRegistered ==
  (ready /\ ~raised) => \A e \in animateItems : e \in visible \/ Waiting(e)

\* after page-ready and a reset, an element outside the viewport has been
\* revealed by a callback and is registered with the current observer no
\* more, with no entry left in any queue
C18_Witness ==
  /\ ready
  /\ animationObserver = MaxGen
  /\ \A g \in Gens : queued[g] = {}
  /\ \E e \in animateItems : e \in visible /\ ~AlreadyVisible(e) /\ ~Waiting(e)

\* ---------------------------------------------------------------------
\* Properties of the submissions
\* ---------------------------------------------------------------------

\* a text with no whitespace at either end
Trimmed(text) == text = <<>> \/ (~IsSpace(text[1]) /\ ~IsSpace(text[Len(text)]))

\* C19: a submit dispatches exactly one request, whose payload is the four
\* field values of that moment with name and message trimmed; nothing else
\* dispatches a request; and while a request is in flight no edit, stepper
\* click, further submit or completion of another request changes its
\* payload.
C19_PayloadAtSubmit ==
  [][/\ Submit =>
          /\ Len(requests') = Len(requests) + 1
          /\ requests'[Len(requests')].state = "pending"
          /\ requests'[Len(requests')].data =
               [name |-> Trim(nameValue), attendance |-> attendanceValue,
                guestCount |-> guestCountValue, message |-> Trim(messageValue)]
          /\ Trimmed(requests'[Len(requests')].data.name)
          /\ Trimmed(requests'[Len(requests')].data.message)
     /\ Len(requests') # Len(requests) => Submit
     /\ \A i \in DOMAIN requests :
          requests'[i].state = "pending" => requests'[i] = requests[i]]_vars

\* two requests with different payloads are in flight and the fields have
\* been edited and stepped since the second was dispatched
C19_Witness ==
  /\ Len(requests) = 2
  /\ requests[1].state = "pending"
  /\ requests[2].state = "pending"
  /\ requests[1].data.name = <<"a">>
  /\ requests[1].data.guestCount # requests[2].data.guestCount
  /\ guestCountValue # requests[2].data.guestCount
  /\ nameValue # <<" ", "a", " ">>

\* C20: a request in flight has shown no notice and a completed one has
\* shown exactly one: the confirmation when the fetch was fulfilled, the
\* failure notice when it was rejected.
C20_ExactlyOneNotice ==
  /\ [](\A i \in DOMAIN requests :
          Len(requests[i].notices) = IF requests[i].state = "pending" THEN 0 ELSE 1)
  /\ [][\A i \in 1..MaxSubmits :
          /\ FetchFulfilled(i) => requests'[i].notices = <<ConfirmationNotice>>
          /\ FetchRejected(i) => requests'[i].notices = <<FailureNotice>>]_vars

====
